---- MODULE Spec2Model ----
(***************************************************************************)
(* The wasm binding layer of the SixtyFPS interpreter                      *)
(* (api/sixtyfps-wasm-interpreter/src/lib.rs): compile_from_string, the    *)
(* two import hooks it installs on the compiler configuration, the         *)
(* flattening of the diagnostics into a JS error, and register_font.       *)
(*                                                                         *)
(* The interpreter engine (from_source, register_font_from_memory) and the *)
(* JS host (the two callbacks, fetch, the promises) are the environment:   *)
(* every value they hand to the adapter is chosen nondeterministically     *)
(* from small sets.  Strings the adapter builds are sequences of           *)
(* one-character strings.                                                  *)
(***************************************************************************)
EXTENDS Integers, Sequences, FiniteSets, TLC

VARIABLES pc, args, config, engineCall, pending, hook, resolveReq, loadReq,
          calls, engineRet, outcome,
          fpc, furl, flog, fetches, registrations, registry, regAtCall, fresult

cvars == <<pc, args, config, engineCall, pending, hook, resolveReq, loadReq, calls, engineRet, outcome>>
fvars == <<fpc, furl, flog, fetches, registrations, registry, regAtCall, fresult>>
vars == <<pc, args, config, engineCall, pending, hook, resolveReq, loadReq, calls, engineRet, outcome, fpc, furl, flog, fetches, registrations, registry, regAtCall, fresult>>

(* ------------------------------ bounds --------------------------------- *)
\* longest list of diagnostics the engine returns
MaxDiags == 2
\* most resolve requests, and most load requests, the engine makes in one compile
MaxImports == 2
\* longest font file, in bytes
MaxFontLen == 1

(* ------------------------------ values --------------------------------- *)
None == [some |-> FALSE]
Some(v) == [some |-> TRUE, val |-> v]

TaskIds == {1, 2}
Sources == {"src1", "src2"}
BaseUrls == {"base1", "base2"}
ImportNames == {"imp.60"}
ImportPaths == {"/p/a.60", "/p/b.60"}

\* a JS function object handed in by the host; each task has its own pair
ResolverFn(t) == <<"resolve", t>>
LoaderFn(t) == <<"load", t>>
Fns == {ResolverFn(t) : t \in TaskIds} \cup {LoaderFn(t) : t \in TaskIds}

\* JS values the host can produce
JsString(s) == [type |-> "string", str |-> s]
JsUndefined == [type |-> "undefined"]
JsObject == [type |-> "object"]
JsPromise == [type |-> "promise"]
JsValues == {JsString(p) : p \in ImportPaths} \cup {JsUndefined, JsObject}

\* what calling a JS function does: it throws, or it returns a value
Threw == [kind |-> "throw"]
Returned(v) == [kind |-> "value", val |-> v]
ResolverOutcomes == {Threw} \cup {Returned(v) : v \in JsValues}
LoaderCallOutcomes == {Threw, Returned(JsPromise), Returned(JsString("/p/a.60")), Returned(JsUndefined)}
\* how a promise settles
Fulfilled(v) == [kind |-> "fulfilled", val |-> v]
Rejected(v) == [kind |-> "rejected", val |-> v]
Settlements == {Fulfilled(v) : v \in JsValues} \cup {Rejected(v) : v \in JsValues}

\* JsValue::as_string: Some for a JS string, None for every other value
AsString(v) == IF v.type = "string" THEN Some(v.str) ELSE None
\* Option::unwrap_or_default on Option<String>
UnwrapOrDefault(o) == IF o.some THEN o.val ELSE ""

(* -------------------- decimal formatting, substrings ------------------- *)
DigitChar(n) == CASE n = 0 -> "0" [] n = 1 -> "1" [] n = 2 -> "2" [] n = 3 -> "3" [] n = 4 -> "4" [] n = 5 -> "5" [] n = 6 -> "6" [] n = 7 -> "7" [] n = 8 -> "8" [] n = 9 -> "9"

RECURSIVE FormatNumber(_)
\* "{}" of an unsigned integer: its decimal digits
FormatNumber(n) == IF n < 10 THEN <<DigitChar(n)>> ELSE FormatNumber(n \div 10) \o <<DigitChar(n % 10)>>

Contains(s, sub) == \E i \in 0..(Len(s) - Len(sub)) : SubSeq(s, i + 1, i + Len(sub)) = sub

(* ---------------------------- diagnostics ------------------------------ *)
\* the engine's diagnostics: optional source file, line, column, message and
\* level (DiagnosticLevel as its discriminant: Error = 0, Warning = 1)
SourceFile == Some(<<"u", ".", "x">>)
Diag(f, l, c, m, v) == [source_file |-> f, line |-> l, column |-> c, message |-> m, level |-> v]
Diagnostics == {Diag(SourceFile, 1, 2, <<"m">>, 0), Diag(SourceFile, 12, 3, <<"m">>, 1), Diag(SourceFile, 12, 2, <<"n">>, 0), Diag(None, 1, 3, <<"m">>, 0), Diag(None, 1, 2, <<"n">>, 1), Diag(None, 12, 3, <<"n">>, 1)}

SeqsUpTo(S, n) == UNION {[1..k -> S] : k \in 0..n}
DiagLists == SeqsUpTo(Diagnostics, MaxDiags)
Components == {"compA", "compB"}
EngineResults == [c : {None} \cup {Some(x) : x \in Components}, diags : DiagLists]

\* a short list of engine results, for the specifications that run several operations
FewResults == {[c |-> Some("compA"), diags |-> <<>>], [c |-> Some("compB"), diags |-> <<Diag(None, 1, 2, <<"n">>, 1)>>], [c |-> None, diags |-> <<Diag(SourceFile, 1, 2, <<"m">>, 0)>>], [c |-> None, diags |-> <<Diag(None, 1, 2, <<"n">>, 1), Diag(SourceFile, 12, 3, <<"m">>, 1)>>]}

\* Invalid stands for a byte sequence that is not UTF-8; to_string_lossy
\* replaces it by U+FFFD. Paths of the engine come from Rust strings.
ToStringLossy(p) == [i \in DOMAIN p |-> IF p[i] = "Invalid" THEN "U+FFFD" ELSE p[i]]

\* Display of a diagnostic, as the engine writes it: "file:line: message"
\* with a source file, "message" without; the column is not part of it
DiagnosticDisplay(d) == IF d.source_file.some THEN d.source_file.val \o <<":">> \o FormatNumber(d.line) \o <<":", " ">> \o d.message ELSE d.message

\* lines 86-89: the file name, empty without a source file
FileName(d) == IF d.source_file.some THEN ToStringLossy(d.source_file.val) ELSE <<>>

\* faulty variant: the column written in place of the line
ErrorLineSwapped(d) == FileName(d) \o <<":">> \o FormatNumber(d.column) \o <<":">> \o DiagnosticDisplay(d)
\* line 99: write!("{}:{}:{}", filename, line, d)
ErrorLine(d) == FileName(d) \o <<":">> \o FormatNumber(d.line) \o <<":">> \o DiagnosticDisplay(d)

\* faulty variant: the newline pushed before the first line too
PushLineAlways(error_as_string, d) == error_as_string \o <<"\n">> \o ErrorLine(d)
\* lines 93-99: a newline unless the string is still empty, then the line
PushLine(error_as_string, d) == (IF error_as_string # <<>> THEN error_as_string \o <<"\n">> ELSE error_as_string) \o ErrorLine(d)

\* lines 100-109: the record pushed on the errors array
ErrorObj(d) == [message |-> d.message, lineNumber |-> d.line, columnNumber |-> d.column, fileName |-> FileName(d), level |-> d.level]

RECURSIVE FlattenLoop(_, _, _)
\* lines 83-111: the loop over the diagnostics
FlattenLoop(diags, error_as_string, array) == IF diags = <<>> THEN [message |-> error_as_string, errors |-> array] ELSE FlattenLoop(Tail(diags), PushLine(error_as_string, Head(diags)), Append(array, ErrorObj(Head(diags))))

\* lines 113-115: the JS Error with its message and its errors property
AggregateError(diags) == FlattenLoop(diags, <<>>, <<>>)

\* faulty variant: a handle also when there is no component but no diagnostic either
CompileResultLenient(c, diags) == IF c.some \/ diags = <<>> THEN [kind |-> "handle", comp |-> IF c.some THEN c.val ELSE "none"] ELSE [kind |-> "error", error |-> AggregateError(diags)]
\* lines 75-117: Ok(handle) for Some, Err(aggregate error) for None
CompileResult(c, diags) == IF c.some THEN [kind |-> "handle", comp |-> c.val] ELSE [kind |-> "error", error |-> AggregateError(diags)]

(* ------------------------- the configuration --------------------------- *)
DefaultConfig == [custom |-> FALSE]
\* line 68: with_file_loader, the closures own the two callbacks
WithFileLoader(resolver, loader) == [custom |-> TRUE, resolver |-> resolver, loader |-> loader]

\* faulty variants: the loader installed when either callback is there; a
\* configuration kept across calls once one was installed
CompilerConfigEither(resolver, loader) == IF resolver.some \/ loader.some THEN WithFileLoader(IF resolver.some THEN resolver.val ELSE loader.val, IF loader.some THEN loader.val ELSE resolver.val) ELSE DefaultConfig
CompilerConfigShared(resolver, loader) == IF \E u \in TaskIds : config[u].custom THEN config[CHOOSE u \in TaskIds : config[u].custom] ELSE IF resolver.some /\ loader.some THEN WithFileLoader(resolver.val, loader.val) ELSE DefaultConfig
\* lines 36-69: the file loader is installed when both callbacks are there
CompilerConfig(resolver, loader) == IF resolver.some /\ loader.some THEN WithFileLoader(resolver.val, loader.val) ELSE DefaultConfig

\* faulty variant: the call made a second time
Call1Retry(counts, fn) == [counts EXCEPT ![fn] = @ + 2]
\* lines 42-44 and 55: call1 invokes the JS function once
Call1(counts, fn) == [counts EXCEPT ![fn] = @ + 1]

\* lines 41-47: .ok().and_then(as_string)
ResolveImportFallback(o) == IF o.kind = "value" THEN AsString(o.val) ELSE None

Ok(v) == [ok |-> TRUE, val |-> v]
Err(e) == [ok |-> FALSE, err |-> e]

\* faulty variant: a rejection delivered as content
LoadResultSwallow(s) == Ok(UnwrapOrDefault(AsString(s.val)))
\* lines 58-64: the awaited promise, as the io::Result the engine receives
LoadResult(s) == IF s.kind = "fulfilled" THEN Ok(UnwrapOrDefault(AsString(s.val))) ELSE Err(UnwrapOrDefault(AsString(s.val)))

NoHook == [kind |-> "none"]

(* ------------------------------- Init ---------------------------------- *)
Init ==
    /\ pc = [t \in TaskIds |-> "idle"]
    /\ args = [t \in TaskIds |-> None]
    /\ config = [t \in TaskIds |-> DefaultConfig]
    /\ engineCall = [t \in TaskIds |-> <<>>]
    /\ pending = [t \in TaskIds |-> None]
    /\ hook = [t \in TaskIds |-> NoHook]
    /\ resolveReq = [t \in TaskIds |-> 0]
    /\ loadReq = [t \in TaskIds |-> 0]
    /\ calls = [f \in Fns |-> 0]
    /\ engineRet = [t \in TaskIds |-> None]
    /\ outcome = [t \in TaskIds |-> None]
    /\ fpc = "idle"
    /\ furl = None
    /\ flog = <<>>
    /\ fetches = 0
    /\ registrations = 0
    /\ registry = {}
    /\ regAtCall = {}
    /\ fresult = None

(* ------------------------ compile_from_string -------------------------- *)
\* lines 27-73: the call up to the await on from_source
CompileFromString(t, source, base_url, resolver, loader) ==
    /\ pc[t] = "idle"
    /\ args' = [args EXCEPT ![t] = Some([source |-> source, base_url |-> base_url, resolver |-> resolver, loader |-> loader])]
    /\ config' = [config EXCEPT ![t] = CompilerConfig(resolver, loader)]
    /\ engineCall' = [engineCall EXCEPT ![t] = Append(@, [source |-> source, base_url |-> base_url, config |-> CompilerConfig(resolver, loader)])]
    /\ pc' = [pc EXCEPT ![t] = "awaiting"]
    /\ UNCHANGED <<pending, hook, resolveReq, loadReq, calls, engineRet, outcome>>
    /\ UNCHANGED fvars

\* lines 41-47: the engine asks the resolve hook about an import
ResolveImport(t, file_name, o) ==
    /\ pc[t] = "awaiting"
    /\ config[t].custom
    /\ ~pending[t].some
    /\ resolveReq[t] < MaxImports
    /\ resolveReq' = [resolveReq EXCEPT ![t] = @ + 1]
    /\ calls' = Call1(calls, config[t].resolver)
    /\ hook' = [hook EXCEPT ![t] = [kind |-> "resolve", fn |-> config[t].resolver, arg |-> file_name, host |-> o, engine |-> ResolveImportFallback(o)]]
    /\ UNCHANGED <<pc, args, config, engineCall, pending, loadReq, engineRet, outcome>>
    /\ UNCHANGED fvars

\* lines 48-57: the engine polls the load hook's future; the callback is
\* called, a throw panics in unwrap, a value without then() throws in
\* JsFuture::from, a promise is awaited
OpenImport(t, file_name, o) ==
    /\ pc[t] = "awaiting"
    /\ config[t].custom
    /\ ~pending[t].some
    /\ loadReq[t] < MaxImports
    /\ loadReq' = [loadReq EXCEPT ![t] = @ + 1]
    /\ calls' = Call1(calls, config[t].loader)
    /\ IF o.kind = "value" /\ o.val.type = "promise"
       THEN /\ pending' = [pending EXCEPT ![t] = Some(file_name)]
            /\ hook' = [hook EXCEPT ![t] = [kind |-> "loading", fn |-> config[t].loader, arg |-> file_name, host |-> o]]
            /\ pc' = pc
       ELSE /\ pending' = pending
            /\ hook' = [hook EXCEPT ![t] = [kind |-> "loadabort", fn |-> config[t].loader, arg |-> file_name, host |-> o]]
            /\ pc' = [pc EXCEPT ![t] = "aborted"]
    /\ UNCHANGED <<args, config, engineCall, resolveReq, engineRet, outcome>>
    /\ UNCHANGED fvars

\* lines 58-64: the promise settles and the future completes
LoadSettle(t, s) ==
    /\ pc[t] = "awaiting"
    /\ pending[t].some
    /\ hook' = [hook EXCEPT ![t] = [kind |-> "load", fn |-> config[t].loader, arg |-> pending[t].val, host |-> s, engine |-> LoadResult(s)]]
    /\ pending' = [pending EXCEPT ![t] = None]
    /\ UNCHANGED <<pc, args, config, engineCall, resolveReq, loadReq, calls, engineRet, outcome>>
    /\ UNCHANGED fvars

\* lines 71-117: from_source completes and the result is wrapped
FromSourceReturns(t, r) ==
    /\ pc[t] = "awaiting"
    /\ ~pending[t].some
    /\ engineRet' = [engineRet EXCEPT ![t] = Some(r)]
    /\ outcome' = [outcome EXCEPT ![t] = Some(CompileResult(r.c, r.diags))]
    /\ hook' = [hook EXCEPT ![t] = NoHook]
    /\ pc' = [pc EXCEPT ![t] = "done"]
    /\ UNCHANGED <<args, config, engineCall, pending, resolveReq, loadReq, calls>>
    /\ UNCHANGED fvars

\* the inputs of a call by task t: each callback is supplied or not
Callbacks(f) == {None, Some(f)}

CompileCall(t, S, B) == \E s \in S, b \in B, r \in Callbacks(ResolverFn(t)), l \in Callbacks(LoaderFn(t)) : CompileFromString(t, s, b, r, l)
CompileHooks(t, RO, LO, ST) ==
    \/ \E n \in ImportNames, o \in RO : ResolveImport(t, n, o)
    \/ \E p \in ImportPaths, o \in LO : OpenImport(t, p, o)
    \/ \E s \in ST : LoadSettle(t, s)

(* --------------------------- register_font ----------------------------- *)
ByteValues == {0, 255}
FontData == SeqsUpTo(ByteValues, MaxFontLen)
FewFontData == {<<0>>}
FontUrls == {"http://h/a.ttf", "http://h/b.ttf"}
Step(name, ok) == [step |-> name, ok |-> ok]

\* lines 138-149: the request is built (a throw returns Err), the window is
\* unwrapped (a panic without one), the fetch is issued and awaited
RegisterFont(url, requestOk, hasWindow) ==
    /\ fpc \in {"idle", "returned", "panicked"}
    /\ furl' = Some(url)
    /\ regAtCall' = registry
    /\ registrations' = 0
    /\ flog' = <<Step("request", requestOk)>>
    /\ IF ~requestOk
       THEN fpc' = "returned" /\ fresult' = Some(Err("request")) /\ fetches' = 0
       ELSE IF ~hasWindow
       THEN fpc' = "panicked" /\ fresult' = None /\ fetches' = 0
       ELSE fpc' = "await_fetch" /\ fresult' = None /\ fetches' = 1
    /\ UNCHANGED registry
    /\ UNCHANGED cvars

\* lines 149-153: the fetch settles; a rejection returns Err, a value that is
\* no Response panics in unwrap, array_buffer() throws or gives a promise
FetchSettles(o, arrayBufferOk) ==
    /\ fpc = "await_fetch"
    /\ IF o = "rejected"
       THEN fpc' = "returned" /\ fresult' = Some(Err("fetch")) /\ flog' = Append(flog, Step("fetch", FALSE))
       ELSE IF o = "other"
       THEN fpc' = "panicked" /\ fresult' = fresult /\ flog' = Append(flog, Step("fetch", TRUE))
       ELSE IF ~arrayBufferOk
       THEN fpc' = "returned" /\ fresult' = Some(Err("array_buffer")) /\ flog' = flog \o <<Step("fetch", TRUE), Step("body", FALSE)>>
       ELSE fpc' = "await_body" /\ fresult' = fresult /\ flog' = Append(flog, Step("fetch", TRUE))
    /\ UNCHANGED <<furl, fetches, registrations, registry, regAtCall>>
    /\ UNCHANGED cvars

\* faulty variant: a rejected body read as no bytes
FetchedBodyAlways(s) == Some(IF s.kind = "fulfilled" THEN s.val ELSE <<>>)
\* line 153: the awaited body, `?` leaves on a rejection
FetchedBody(s) == IF s.kind = "fulfilled" THEN Some(s.val) ELSE None

\* faulty variant: the engine's error ignored
RegisterResultForgiving(accepted) == "returned"
\* lines 156-158: unwrap of the engine's result, then Ok(())
RegisterResult(accepted) == IF accepted THEN "returned" ELSE "panicked"

\* lines 153-158: the body settles; its bytes go to register_font_from_memory,
\* which accepts them (the registry gains them) or rejects them
BodySettles(s, accepted) ==
    /\ fpc = "await_body"
    /\ IF FetchedBody(s).some
       THEN /\ flog' = flog \o <<Step("body", s.kind = "fulfilled"), Step("register", accepted)>>
            /\ registrations' = registrations + 1
            /\ registry' = IF accepted THEN registry \cup {FetchedBody(s).val} ELSE registry
            /\ fpc' = RegisterResult(accepted)
            /\ fresult' = IF RegisterResult(accepted) = "returned" THEN Some(Ok("unit")) ELSE None
       ELSE /\ flog' = Append(flog, Step("body", FALSE))
            /\ fpc' = "returned"
            /\ fresult' = Some(Err("body"))
            /\ UNCHANGED <<registrations, registry>>
    /\ UNCHANGED <<furl, fetches, regAtCall>>
    /\ UNCHANGED cvars

FontNext(D) ==
    \/ \E url \in FontUrls, requestOk \in BOOLEAN, hasWindow \in BOOLEAN : RegisterFont(url, requestOk, hasWindow)
    \/ \E o \in {"response", "rejected", "other"}, ab \in BOOLEAN : FetchSettles(o, ab)
    \/ \E s \in {Fulfilled(b) : b \in D} \cup {[kind |-> "rejected"]}, accepted \in BOOLEAN : BodySettles(s, accepted)

(* --------------------------- specifications ---------------------------- *)
\* one compile, every engine result
Next ==
    \/ CompileCall(1, Sources, BaseUrls)
    \/ CompileHooks(1, ResolverOutcomes, LoaderCallOutcomes, Settlements)
    \/ \E r \in EngineResults : FromSourceReturns(1, r)

Spec == Init /\ [][Next]_vars

\* register_font, called again and again
NextFont == FontNext(FontData)

SpecFont == Init /\ [][NextFont]_vars

\* one compile and register_font side by side
NextAll ==
    \/ CompileCall(1, Sources, {"base1"})
    \/ CompileHooks(1, ResolverOutcomes, LoaderCallOutcomes, Settlements)
    \/ \E r \in FewResults : FromSourceReturns(1, r)
    \/ FontNext(FewFontData)

SpecAll == Init /\ [][NextAll]_vars

\* two compiles in flight, each with its own source, base and callbacks
TaskSource(t) == IF t = 1 THEN "src1" ELSE "src2"
TaskBase(t) == IF t = 1 THEN "base1" ELSE "base2"
FewResolverOutcomes == {Threw, Returned(JsString("/p/a.60")), Returned(JsUndefined)}
FewLoaderCallOutcomes == {Threw, Returned(JsPromise)}
FewSettlements == {Fulfilled(JsString("/p/b.60")), Rejected(JsObject)}

NextConc ==
    \E t \in TaskIds :
        \/ CompileCall(t, {TaskSource(t)}, {TaskBase(t)})
        \/ CompileHooks(t, FewResolverOutcomes, FewLoaderCallOutcomes, FewSettlements)
        \/ \E r \in FewResults : FromSourceReturns(t, r)

SpecConc == Init /\ [][NextConc]_vars

(* ------------------------------ claims --------------------------------- *)
Done(t) == pc[t] = "done"
Failed(t) == Done(t) /\ outcome[t].val.kind = "error"
BothSupplied(t) == args[t].val.resolver.some /\ args[t].val.loader.some

\* C1: a completed compile_from_string ends with a handle or with the aggregate
\* error, never both: the handle exactly when from_source returned Some (and it
\* wraps that component), the error exactly when it returned None, whatever
\* the diagnostics are.
C1_HandleIffComponent == \A t \in TaskIds : Done(t) =>
    LET r == engineRet[t].val
        o == outcome[t].val
    IN  /\ o.kind \in {"handle", "error"}
        /\ (o.kind = "handle") <=> r.c.some
        /\ (o.kind = "error") <=> ~r.c.some
        /\ o.kind = "handle" => DOMAIN o = {"kind", "comp"} /\ o.comp = r.c.val
        /\ o.kind = "error" => DOMAIN o = {"kind", "error"} /\ Len(o.error.errors) = Len(r.diags)

\* a handle is returned although the engine reported diagnostics
C1_Witness == Done(1) /\ outcome[1].val.kind = "handle" /\ engineRet[1].val.diags # <<>>

\* C2: the file loader is installed exactly when both callbacks are supplied;
\* otherwise the engine gets the default configuration and no supplied
\* callback is invoked.
C2_LoaderIffBoth == \A t \in TaskIds : pc[t] # "idle" =>
    /\ config[t].custom <=> BothSupplied(t)
    /\ engineCall[t][1].config = config[t]
    /\ config[t].custom => config[t].resolver = args[t].val.resolver.val /\ config[t].loader = args[t].val.loader.val
    /\ ~BothSupplied(t) => /\ engineCall[t][1].config = DefaultConfig
                           /\ calls[ResolverFn(t)] = 0
                           /\ calls[LoaderFn(t)] = 0

\* a compile that was given the resolver only has completed
C2_Witness == Done(1) /\ args[1].val.resolver.some /\ ~args[1].val.loader.some /\ ~config[1].custom

EntryInMessage(e, message) == Contains(message, e.fileName) /\ Contains(message, FormatNumber(e.lineNumber))

RECURSIVE JoinLines(_)
JoinLines(lines) == IF lines = <<>> THEN <<>> ELSE IF Len(lines) = 1 THEN lines[1] ELSE lines[1] \o <<"\n">> \o JoinLines(Tail(lines))

\* C4: on a failed compile the errors array has one record per diagnostic, in
\* the engine's order, none filtered, each with the message, line, column,
\* file name (empty without a source file) and level of its diagnostic; the
\* message is the diagnostics' lines joined by single newlines, with no
\* leading or trailing newline.
C4_PureFlattening == \A t \in TaskIds : Failed(t) =>
    LET e == outcome[t].val.error
        ds == engineRet[t].val.diags
    IN  /\ Len(e.errors) = Len(ds)
        /\ \A i \in 1..Len(ds) :
              /\ e.errors[i].message = ds[i].message
              /\ e.errors[i].lineNumber = ds[i].line
              /\ e.errors[i].columnNumber = ds[i].column
              /\ e.errors[i].fileName = (IF ds[i].source_file.some THEN ds[i].source_file.val ELSE <<>>)
              /\ e.errors[i].level = ds[i].level
        /\ e.message = JoinLines([i \in 1..Len(ds) |-> ErrorLine(ds[i])])
        /\ ds # <<>> => e.message[1] # "\n" /\ e.message[Len(e.message)] # "\n"
        /\ Cardinality({i \in 1..Len(e.message) : e.message[i] = "\n"}) = (IF ds = <<>> THEN 0 ELSE Len(ds) - 1)

\* a failed compile with two diagnostics of different levels, the first without a source file
C4_Witness == /\ Failed(1)
              /\ Len(engineRet[1].val.diags) = 2
              /\ ~engineRet[1].val.diags[1].source_file.some
              /\ engineRet[1].val.diags[1].level # engineRet[1].val.diags[2].level

\* C5 as stated: what the engine receives from the resolve hook is the path the
\* resolver returned, and no path when it returned none; what it receives from
\* the load hook is exactly what the loader's promise produced: its content on
\* fulfilment, an error carrying its reason on rejection.
C5_HooksVerbatim == \A t \in TaskIds :
    /\ hook[t].kind = "resolve" =>
          IF hook[t].host.kind = "value" /\ hook[t].host.val.type = "string"
          THEN hook[t].engine = Some(hook[t].host.val.str)
          ELSE hook[t].engine = None
    /\ hook[t].kind = "load" =>
          IF hook[t].host.kind = "fulfilled"
          THEN hook[t].engine.ok /\ JsString(hook[t].engine.val) = hook[t].host.val
          ELSE ~hook[t].engine.ok /\ JsString(hook[t].engine.err) = hook[t].host.val

\* C5 amended: the values pass verbatim when they are JS strings. A resolver
\* that throws or returns a non-string gives no path; a promise fulfilled with
\* a non-string gives the empty content; a promise rejected with a non-string
\* (an Error object, say) gives an error with an empty message. A rejection is
\* never delivered as a success, nor a fulfilment as an error, and each
\* callback is called with the name the engine asked about.
C5_HooksVerbatimForStrings == \A t \in TaskIds :
    /\ hook[t].kind = "resolve" =>
          /\ hook[t].fn = args[t].val.resolver.val
          /\ IF hook[t].host.kind = "value" /\ hook[t].host.val.type = "string"
             THEN hook[t].engine = Some(hook[t].host.val.str)
             ELSE hook[t].engine = None
    /\ hook[t].kind = "load" =>
          /\ hook[t].fn = args[t].val.loader.val
          /\ hook[t].engine.ok <=> (hook[t].host.kind = "fulfilled")
          /\ hook[t].host.val.type = "string" =>
                IF hook[t].engine.ok THEN hook[t].engine.val = hook[t].host.val.str ELSE hook[t].engine.err = hook[t].host.val.str
          /\ hook[t].host.val.type # "string" =>
                IF hook[t].engine.ok THEN hook[t].engine.val = "" ELSE hook[t].engine.err = ""

\* the loader's promise was rejected with an object and the engine got an error with an empty message
C5_Witness == hook[1].kind = "load" /\ hook[1].host = Rejected(JsObject) /\ hook[1].engine = Err("")

FailedStep(name) == \E i \in 1..Len(flog) : flog[i].step = name /\ ~flog[i].ok
HasStep(name) == \E i \in 1..Len(flog) : flog[i].step = name
StepOrder == <<"request", "fetch", "body", "register">>

\* C6: register_font builds the request, awaits the fetch, awaits the body and
\* only then calls the engine's registration; when the request, the fetch or
\* the body read fails, the call fails and the registry is as it was.
C6_RegisterAfterBothAwaits ==
    /\ Len(flog) <= 4
    /\ \A i \in 1..Len(flog) : flog[i].step = StepOrder[i]
    /\ HasStep("register") => flog[1].ok /\ flog[2].ok /\ flog[3].ok /\ fetches = 1
    /\ registry # regAtCall => HasStep("register") /\ flog[4].ok
    /\ (FailedStep("request") \/ FailedStep("fetch") \/ FailedStep("body")) =>
          /\ fpc = "returned"
          /\ ~fresult.val.ok
          /\ registry = regAtCall
          /\ registrations = 0

\* the body read failed after an earlier call had registered a font: the registry still holds just that font
C6_Witness == fpc = "returned" /\ FailedStep("body") /\ registry # {} /\ registry = regAtCall

Ended == fpc \in {"returned", "panicked"}

\* C7 as stated: a run that fails in the fetch, in reading the body or by the
\* engine rejecting the bytes ends by returning Err, and Ok is returned only
\* when the engine accepted the bytes.
C7_EveryFailureReturnsErr ==
    /\ (Ended /\ (FailedStep("fetch") \/ FailedStep("body") \/ FailedStep("register"))) => fpc = "returned" /\ ~fresult.val.ok
    /\ (fpc = "returned" /\ fresult.val.ok) => HasStep("register") /\ flog[4].ok

\* C7 amended: a run that fails in building the request, in the fetch or in
\* reading the body ends by returning Err; a run in which the engine rejects
\* the bytes (or there is no window, or the fetch resolves to something that is
\* no Response) ends in a panic and returns nothing; Ok is returned only when
\* the engine accepted the bytes.
C7_TransportFailuresReturnErr ==
    /\ (FailedStep("request") \/ FailedStep("fetch") \/ FailedStep("body")) => fpc = "returned" /\ fresult = Some(Err(CASE FailedStep("request") -> "request" [] FailedStep("fetch") -> "fetch" [] OTHER -> fresult.val.err)) /\ fresult.val.err \in {"request", "fetch", "array_buffer", "body"}
    /\ FailedStep("register") => fpc = "panicked" /\ fresult = None
    /\ fpc = "panicked" => fresult = None /\ ~FailedStep("request") /\ ~FailedStep("fetch") /\ ~FailedStep("body")
    /\ (fpc = "returned" /\ fresult.val.ok) <=> (HasStep("register") /\ flog[4].ok)
    /\ Ended => (fpc = "returned" <=> fresult.some)

\* the engine rejected the bytes: the run panicked, nothing was returned and nothing registered
C7_Witness == fpc = "panicked" /\ FailedStep("register") /\ fresult = None /\ registry = regAtCall

\* C8: however the load callback fails (a throw, a value that is no promise,
\* a rejected promise) the load hook completes with Err and the compile task
\* never aborts inside the adapter.
C8_LoaderFailureIsErr == \A t \in TaskIds :
    /\ pc[t] # "aborted"
    /\ hook[t].kind # "loadabort"
    /\ (hook[t].kind = "load" /\ hook[t].host.kind = "rejected") => ~hook[t].engine.ok

\* C9 as stated: no retries. One call of compile_from_string invokes
\* from_source once, each resolve request calls the resolver once and each load
\* request the loader once; one call of register_font issues exactly one fetch
\* and calls the engine's registration at most once.
C9_ExactlyOnce ==
    /\ \A t \in TaskIds :
          /\ Len(engineCall[t]) = (IF pc[t] = "idle" THEN 0 ELSE 1)
          /\ calls[ResolverFn(t)] = resolveReq[t]
          /\ calls[LoaderFn(t)] = loadReq[t]
    /\ fpc = "returned" => fetches = 1
    /\ registrations <= 1

\* C9 amended: as stated, but register_font issues at most one fetch: exactly
\* one once the request was built and a window was found, none when building
\* the request failed or there is no window.
C9_AtMostOnce ==
    /\ \A t \in TaskIds :
          /\ Len(engineCall[t]) = (IF pc[t] = "idle" THEN 0 ELSE 1)
          /\ calls[ResolverFn(t)] = resolveReq[t]
          /\ calls[LoaderFn(t)] = loadReq[t]
    /\ fetches <= 1
    /\ fetches = (IF HasStep("fetch") \/ fpc \in {"await_fetch", "await_body"} THEN 1 ELSE 0)
    /\ (fpc = "returned" /\ FailedStep("request")) => fetches = 0
    /\ registrations <= 1
    /\ registrations = (IF HasStep("register") THEN 1 ELSE 0)

\* a compile whose loader threw on its second load and whose resolver was asked
\* once, next to a register_font that returned without any fetch
C9_Witness == /\ pc[1] = "aborted" /\ loadReq[1] = 2 /\ calls[LoaderFn(1)] = 2 /\ calls[ResolverFn(1)] = 1
              /\ fpc = "returned" /\ fetches = 0

TaskState(t) == <<pc[t], args[t], config[t], engineCall[t], pending[t], hook[t], resolveReq[t], loadReq[t], calls[ResolverFn(t)], calls[LoaderFn(t)], engineRet[t], outcome[t]>>

C10_OwnState == \A t \in TaskIds :
    /\ pc[t] # "idle" =>
          /\ engineCall[t][1].source = TaskSource(t) /\ engineCall[t][1].source = args[t].val.source
          /\ engineCall[t][1].base_url = TaskBase(t) /\ engineCall[t][1].base_url = args[t].val.base_url
          /\ engineCall[t][1].config = config[t]
          /\ config[t].custom <=> BothSupplied(t)
          /\ config[t].custom => config[t].resolver = ResolverFn(t) /\ config[t].loader = LoaderFn(t)
    /\ ~config[t].custom => calls[ResolverFn(t)] = 0 /\ calls[LoaderFn(t)] = 0
    /\ calls[ResolverFn(t)] = resolveReq[t]
    /\ calls[LoaderFn(t)] = loadReq[t]
    /\ hook[t].kind # "none" => hook[t].fn \in {ResolverFn(t), LoaderFn(t)}
    /\ Done(t) => outcome[t].val = CompileResult(engineRet[t].val.c, engineRet[t].val.diags)

====
